---- MODULE Spec2Model ----
\* Model of docs/generate.py: the line scanner (FileProcessor.process_line),
\* the association cascade (FileProcessor.process_post_comment), the document
\* tree (RootNode, Node and its subclasses) and the driver (main).
\*
\* Text is modelled as a sequence of one-character strings, so that the
\* regular expressions, str.strip, str.join and the '%' templates of the
\* source are computed character by character.
EXTENDS Integers, Sequences, FiniteSets, TLC

\* ------------------------------------------------------------------ bounds
\* Files handed to FileProcessor in one run.
MaxFiles == 2

\* Lines read in one run, for each of the families of input files.
MaxLines == 3
MaxNarrLines == 5
MaxNarrOneLines == 6
MaxClassLines == 4
MaxMixLines == 5

\* Files and lines of a run over the files of several modules.
MaxIndexFiles == 3
MaxIndexLines == 6

\* ------------------------------------------------------- string literals
S_slashes ==
    <<"/","/">>
S_hash ==
    <<"#">>
S_export ==
    <<"e","x","p","o","r","t"," ">>
S_class ==
    <<"c","l","a","s","s"," ">>
S_export_let ==
    <<"e","x","p","o","r","t"," ","l","e","t"," ">>
S_constructor ==
    <<"c","o","n","s","t","r","u","c","t","o","r","(">>
S_close ==
    <<")"," ","{">>
S_get ==
    <<"g","e","t"," ">>
S_getter_tail ==
    <<"(",")"," ","{">>
S_this ==
    <<"t","h","i","s">>
S_src ==
    <<"s","r","c","/">>
S_js ==
    <<".","j","s">>
S_index ==
    <<"/","i","n","d","e","x">>
S_marker ==
    <<">",">">>
S_open ==
    <<">",">"," ">>
S_codedoc_dir ==
    <<"_","c","o","d","e","d","o","c","/">>
S_txt ==
    <<".","t","x","t">>
S_modules_dir ==
    <<"m","o","d","u","l","e","s","/">>
S_rst ==
    <<".","r","s","t">>
S_nl ==
    <<"\n">>
S_nlnl ==
    <<"\n","\n">>
S_margin ==
    <<" "," "," ">>
S_index_rst ==
    <<"m","o","d","u","l","e","s","/","i","n","d","e","x",".","r","s","t">>

\* The characters of the model in byte order (the backquote is left out).
Ascii ==
    <<"\t","\n","","\f","\r"," ","!","\"","#","$","%","&","'","(",")","*","+",",",
      "-",".","/","0","1","2","3","4","5","6","7","8","9",":",";","<","=",
      ">","?","@","A","B","C","D","E","F","G","H","I","J","K","L","M","N",
      "O","P","Q","R","S","T","U","V","W","X","Y","Z","[","\\","]","^","_",
      "a","b","c","d","e","f","g","h","i","j","k","l","m","n","o","p",
      "q","r","s","t","u","v","w","x","y","z","{","|","}","~">>
S_index_head ==
    <<".","."," ","i","n","d","e","x",":",":","\n"," "," "," ","s","i","n",
      "g","l","e",":"," ">>
S_directive_head ==
    <<".","."," ">>
S_noindex ==
    <<"\n"," "," "," ",":","n","o","i","n","d","e","x",":","\n","\n">>
S_js_class ==
    <<"j","s",":","c","l","a","s","s",":",":"," ">>
S_js_function ==
    <<"j","s",":","f","u","n","c","t","i","o","n",":",":"," ">>
S_js_attribute ==
    <<"j","s",":","a","t","t","r","i","b","u","t","e",":",":"," ">>
S_js_data ==
    <<"j","s",":","d","a","t","a",":",":"," ">>
S_semi ==
    <<";"," ">>
S_sharp ==
    <<"#">>
S_index_header ==
    <<"M","o","d","u","l","e","s"," ","I","n","d","e","x","\n","=","=","=",
      "=","=","=","=","=","=","=","=","=","=","\n",".","."," ","t","o","c",
      "t","r","e","e",":",":","\n"," "," "," ",":","m","a","x","d","e","p",
      "t","h",":"," ","2","\n","\n">>

\* ------------------------------------------------------ character classes
\* The vertical tab, byte 11 (the string holds the byte itself: there is
\* no escape for it).
VT == ""

\* \s of the re module and the characters str.strip() removes: the bytes
\* 9 to 13 and the space.
Whitespace == {" ", "\t", "\n", VT, "\f", "\r"}

\* \w of the re module (ASCII).
WordChars ==
    {"a","b","c","d","e","f","g","h","i","j","k","l","m",
     "n","o","p","q","r","s","t","u","v","w","x","y","z",
     "A","B","C","D","E","F","G","H","I","J","K","L","M",
     "N","O","P","Q","R","S","T","U","V","W","X","Y","Z",
     "0","1","2","3","4","5","6","7","8","9","_"}

\* ------------------------------------------------------- str operations
startswith(s, p) == Len(s) >= Len(p) /\ SubSeq(s, 1, Len(p)) = p

endswith(s, p) == Len(s) >= Len(p) /\ SubSeq(s, Len(s) - Len(p) + 1, Len(s)) = p

RECURSIVE lstrip(_)
lstrip(s) == IF s # <<>> /\ Head(s) \in Whitespace THEN lstrip(Tail(s)) ELSE s

RECURSIVE rstrip(_)
rstrip(s) ==
    IF s # <<>> /\ s[Len(s)] \in Whitespace
    THEN rstrip(SubSeq(s, 1, Len(s) - 1))
    ELSE s

\* str.strip()
strip(s) == rstrip(lstrip(s))

\* sep.join(xs)
RECURSIVE join(_, _)
join(sep, xs) ==
    IF xs = <<>> THEN <<>>
    ELSE IF Len(xs) = 1 THEN xs[1]
    ELSE xs[1] \o sep \o join(sep, Tail(xs))

\* ---------------------------------------------------- regular expressions
\* A match object: ok is "the match is not None", g1 is group(1), and has1
\* is "group(1) is not None".
NoMatch == [ok |-> FALSE, has1 |-> FALSE, g1 |-> <<>>]

Matched(g) == [ok |-> TRUE, has1 |-> TRUE, g1 |-> g]

\* Length of the run of \w characters of s that starts at position i.
RECURSIVE WordRun(_, _)
WordRun(s, i) ==
    IF i <= Len(s) /\ s[i] \in WordChars THEN 1 + WordRun(s, i + 1) ELSE 0

\* Length of the run of \S characters of s that starts at position i.
RECURSIVE NonSpaceRun(_, _)
NonSpaceRun(s, i) ==
    IF i <= Len(s) /\ s[i] \notin Whitespace THEN 1 + NonSpaceRun(s, i + 1) ELSE 0

\* Length of the run of \s characters of s that starts at position i.
RECURSIVE SpaceRun(_, _)
SpaceRun(s, i) ==
    IF i <= Len(s) /\ s[i] \in Whitespace THEN 1 + SpaceRun(s, i + 1) ELSE 0

\* '$' matches at position i: at the end, or just before a final newline.
AtEnd(s, i) == i = Len(s) + 1 \/ (i = Len(s) /\ s[i] = "\n")

\* The last position a pattern that ends in '$' can consume.
LastPos(s) == IF Len(s) > 0 /\ s[Len(s)] = "\n" THEN Len(s) - 1 ELSE Len(s)

\* '.' matches every character of s[a..b] (anything but a newline).
Dots(s, a, b) == \A k \in a..b : s[k] # "\n"

\* COMMENT_RE = ^(?://|#)(?: (.*$)|$)   applied with match()
COMMENT_RE(s) ==
    LET p == IF startswith(s, S_slashes) THEN 2
             ELSE IF startswith(s, S_hash) THEN 1 ELSE 0
        e == LastPos(s)
    IN  IF p = 0 THEN NoMatch
        ELSE IF Len(s) > p /\ s[p + 1] = " " /\ e >= p + 1 /\ Dots(s, p + 2, e)
        THEN Matched(SubSeq(s, p + 2, e))
        ELSE IF AtEnd(s, p + 1)
        THEN [ok |-> TRUE, has1 |-> FALSE, g1 |-> <<>>]
        ELSE NoMatch

\* CODEDOC_RE = ^>> (\S+)$
CODEDOC_RE(s) ==
    LET r == NonSpaceRun(s, 4)
    IN  IF startswith(s, S_open) /\ r >= 1 /\ AtEnd(s, 4 + r)
        THEN Matched(SubSeq(s, 4, 3 + r))
        ELSE NoMatch

\* CLASS_RE = ^(?:export )?class (\w+)
CLASS_RE(s) ==
    LET t == IF startswith(s, S_export) THEN SubSeq(s, 8, Len(s)) ELSE s
        r == WordRun(t, 7)
    IN  IF startswith(t, S_class) /\ r >= 1
        THEN Matched(SubSeq(t, 7, 6 + r))
        ELSE NoMatch

\* EXPORT_LET_RE = ^export let (\w+)
EXPORT_LET_RE(s) ==
    LET r == WordRun(s, 12)
    IN  IF startswith(s, S_export_let) /\ r >= 1
        THEN Matched(SubSeq(s, 12, 11 + r))
        ELSE NoMatch

\* CONSTRUCTOR_RE = ^constructor\((.*?)\) \{$
CONSTRUCTOR_RE(s) ==
    LET e == LastPos(s)
    IN  IF /\ startswith(s, S_constructor)
           /\ e - 2 >= 13
           /\ SubSeq(s, e - 2, e) = S_close
           /\ Dots(s, 13, e - 3)
        THEN Matched(SubSeq(s, 13, e - 3))
        ELSE NoMatch

\* METHOD_RE = ^(\w+\(.*?\)) {$
METHOD_RE(s) ==
    LET w == WordRun(s, 1)
        e == LastPos(s)
    IN  IF /\ w >= 1
           /\ Len(s) > w
           /\ s[w + 1] = "("
           /\ e - 2 >= w + 2
           /\ SubSeq(s, e - 2, e) = S_close
           /\ Dots(s, w + 2, e - 3)
        THEN Matched(SubSeq(s, 1, e - 2))
        ELSE NoMatch

\* GETTER_RE = ^get (\w+)\(\) {$
GETTER_RE(s) ==
    LET r == WordRun(s, 5)
    IN  IF /\ startswith(s, S_get)
           /\ r >= 1
           /\ Len(s) >= 8 + r
           /\ SubSeq(s, 5 + r, 8 + r) = S_getter_tail
           /\ AtEnd(s, 9 + r)
        THEN Matched(SubSeq(s, 5, 4 + r))
        ELSE NoMatch

\* ATTRIBUTE_RE = ^this.(\w+)\s*=      (the '.' is unescaped: any character)
ATTRIBUTE_RE(s) ==
    LET r == WordRun(s, 6)
        q == 6 + r + SpaceRun(s, 6 + r)
    IN  IF /\ startswith(s, S_this)
           /\ Len(s) >= 5
           /\ s[5] # "\n"
           /\ r >= 1
           /\ q <= Len(s)
           /\ s[q] = "="
        THEN Matched(SubSeq(s, 6, 5 + r))
        ELSE NoMatch

\* Positions where MODULE_RE = src/(.*?)\.js$ can start in s.
ModuleStarts(s) ==
    LET e == LastPos(s)
    IN  {i \in 1..Len(s) :
            /\ i + 3 <= Len(s)
            /\ SubSeq(s, i, i + 3) = S_src
            /\ e - 2 >= i + 4
            /\ SubSeq(s, e - 2, e) = S_js
            /\ Dots(s, i + 4, e - 3)}

\* MODULE_RE applied with search(): the leftmost start wins.
MODULE_RE(s) ==
    LET starts == ModuleStarts(s)
        i == CHOOSE k \in starts : \A j \in starts : k <= j
    IN  IF starts = {} THEN NoMatch
        ELSE Matched(SubSeq(s, i + 4, LastPos(s) - 3))

\* ------------------------------------------------------------ the tree
\* A reference to no object: None, or an attribute that was never set.
None == 0

\* Node.__init__ followed by the subclass's initialize(): a fresh object of
\* class kind.  parent is the module of a ClassNode/DataNode and the
\* class_node of a MethodNode/AttributeNode; a plain Node has neither.
NewNode(kind, name, parent) ==
    [kind |-> kind, name |-> name, parent |-> parent,
     arguments |-> <<>>, contents |-> <<>>]

\* An entry of Node.contents: a child object or a string.
TextItem(s) == [isnode |-> FALSE, text |-> s, node |-> None]

NodeItem(n) == [isnode |-> TRUE, text |-> <<>>, node |-> n]

\* Node.add with insert(0, item) for append: the newest entry comes first.
add_front(h, n, item) == [h EXCEPT ![n].contents = <<item>> \o @]

\* Node.add on the object at address n of heap h
add(h, n, item) == [h EXCEPT ![n].contents = Append(@, item)]

\* Node.add_text with an assignment for append: the text replaces the
\* contents.
add_text_replace(h, n, buf) ==
    [h EXCEPT ![n].contents = <<TextItem(join(S_nl, buf))>>]

\* Node.add_text
add_text(h, n, buf) == add(h, n, TextItem(join(S_nl, buf)))

\* RootNode.file: D is the tree [modules, files, heap], node the object to
\* construct when file_name is new.
file(D, file_name, node) ==
    IF file_name \in DOMAIN D.files
    THEN [D |-> D, node |-> D.files[file_name]]
    ELSE [D |-> [D EXCEPT !.heap = Append(@, node),
                          !.files = @ @@ (file_name :> (Len(D.heap) + 1))],
          node |-> Len(D.heap) + 1]

\* RootNode.module without the lookup: a new ModuleNode at every call.
module_fresh(D, module_name) ==
    LET file_name == S_modules_dir \o module_name \o S_rst
        n == Len(D.heap) + 1
    IN  [D |-> [heap |-> Append(D.heap, NewNode("ModuleNode", module_name, None)),
                files |-> [fn \in DOMAIN D.files \cup {file_name} |->
                             IF fn = file_name THEN n ELSE D.files[fn]],
                modules |-> [mn \in DOMAIN D.modules \cup {module_name} |->
                               IF mn = module_name THEN n ELSE D.modules[mn]]],
         node |-> n]

\* RootNode.module
module(D, module_name) ==
    IF module_name \in DOMAIN D.modules
    THEN [D |-> D, node |-> D.modules[module_name]]
    ELSE LET file_name == S_modules_dir \o module_name \o S_rst
             r == file(D, file_name, NewNode("ModuleNode", module_name, None))
         IN  [D |-> [r.D EXCEPT !.modules = @ @@ (module_name :> r.node)],
              node |-> r.node]

\* The module name FileProcessor.module_doc derives from the path p, where
\* MODULE_RE finds a match.
modulename(p) ==
    LET m == MODULE_RE(p).g1
    IN  IF endswith(m, S_index) THEN SubSeq(m, 1, Len(m) - 6) ELSE m

\* FileProcessor.module_doc, where MODULE_RE finds a match.
module_doc(D, p) == module(D, modulename(p))

\* ---------------------------------------------------------- serializer
\* str.splitlines() of a byte string: breaks at \n, \r and \r\n.
RECURSIVE splitlines(_)
splitlines(x) ==
    LET brk == {i \in 1..Len(x) : x[i] \in {"\n", "\r"}}
        i == CHOOSE k \in brk : \A j \in brk : k <= j
        n == IF x[i] = "\r" /\ i < Len(x) /\ x[i + 1] = "\n" THEN 2 ELSE 1
    IN  IF x = <<>> THEN <<>>
        ELSE IF brk = {} THEN <<x>>
        ELSE <<SubSeq(x, 1, i - 1)>> \o splitlines(SubSeq(x, i + n, Len(x)))

indent3(x) ==
    LET ls == splitlines(x)
    IN  join(S_nl, [k \in 1..Len(ls) |-> S_margin \o ls[k]])

\* '=' * n
Underline(n) == [k \in 1..n |-> "="]

\* ClassNode.index, MethodNode.index, AttributeNode.index, DataNode.index
RECURSIVE index(_, _)
index(h, n) ==
    IF h[n].kind \in {"ClassNode", "DataNode"}
    THEN h[h[n].parent].name \o S_semi \o h[n].name
    ELSE index(h, h[n].parent) \o S_sharp \o h[n].name

\* ClassNode.directive, MethodNode.directive, AttributeNode.directive,
\* DataNode.directive
directive(h, n) ==
    IF h[n].kind = "ClassNode"
    THEN S_js_class \o h[n].name \o <<"(">> \o h[n].arguments \o <<")">>
    ELSE IF h[n].kind = "MethodNode" THEN S_js_function \o h[n].name
    ELSE IF h[n].kind = "AttributeNode" THEN S_js_attribute \o h[n].name
    ELSE S_js_data \o h[n].name

\* Node.__str__, ModuleNode.__str__ and DomainNode.__str__
RECURSIVE str(_, _)

\* Node.text_contents
text_contents(h, n) ==
    LET c == h[n].contents
    IN  join(S_nlnl, [k \in 1..Len(c) |->
                        IF c[k].isnode THEN str(h, c[k].node) ELSE c[k].text])

str(h, n) ==
    IF h[n].kind = "Node" THEN text_contents(h, n)
    ELSE IF h[n].kind = "ModuleNode"
    THEN h[n].name \o S_nl \o Underline(Len(h[n].name)) \o S_nl
         \o text_contents(h, n)
    ELSE S_index_head \o index(h, n) \o S_nlnl
         \o S_directive_head \o directive(h, n) \o S_noindex
         \o indent3(text_contents(h, n))

\* Byte order of the characters, for sorted().
Ord(c) == CHOOSE i \in 1..Len(Ascii) : Ascii[i] = c

\* a < b for two str
RECURSIVE str_lt(_, _)
str_lt(a, b) ==
    IF b = <<>> THEN FALSE
    ELSE IF a = <<>> THEN TRUE
    ELSE IF Head(a) = Head(b) THEN str_lt(Tail(a), Tail(b))
    ELSE Ord(Head(a)) < Ord(Head(b))

\* sorted(S, reverse=True): the greatest first.
RECURSIVE sorted_reverse(_)
sorted_reverse(S) ==
    IF S = {} THEN <<>>
    ELSE LET m == CHOOSE a \in S : \A b \in S \ {a} : str_lt(b, a)
         IN  <<m>> \o sorted_reverse(S \ {m})

\* sorted(S) for a set S of str
RECURSIVE sorted(_)
sorted(S) ==
    IF S = {} THEN <<>>
    ELSE LET m == CHOOSE a \in S : \A b \in S \ {a} : str_lt(a, b)
         IN  <<m>> \o sorted(S \ {m})

\* What main prints to modules/index.rst.
RECURSIVE IndexLines(_)
IndexLines(keys) ==
    IF keys = <<>> THEN <<>>
    ELSE S_margin \o Head(keys) \o S_nl \o IndexLines(Tail(keys))

index_rst(mods) == S_index_header \o IndexLines(sorted(DOMAIN mods))

\* ---------------------------------------------------------------- inputs
\* Paths get_source_files can yield: '../src/**.js' and '../docs/**.py'.
P_game ==
    <<".",".","/","s","r","c","/","g","a","m","e",".","j","s">>
P_game_index ==
    <<".",".","/","s","r","c","/","g","a","m","e","/","i","n","d","e","x",
      ".","j","s">>
P_index ==
    <<".",".","/","s","r","c","/","i","n","d","e","x",".","j","s">>
P_generate ==
    <<".",".","/","d","o","c","s","/","g","e","n","e","r","a","t","e",".",
      "p","y">>
Paths == {P_game, P_index, P_generate}

\* Two paths of one module.
ClassPaths == {P_game, P_game_index}

\* Two paths of two modules.
NarrPaths == {P_game, P_index}

\* Lines of the files, as the file iterator yields them.
L_doc ==
    <<"/","/"," ","D","o","c","\n">>
L_open_foo ==
    <<"/","/"," ",">",">"," ","f","o","o","\n">>
L_open_bar ==
    <<"#"," ",">",">"," ","b","a","r","\n">>
L_continue ==
    <<"/","/"," ",">",">","\n">>
L_class ==
    <<"c","l","a","s","s"," ","F","o","o"," ","{","\n">>
L_export_class ==
    <<"e","x","p","o","r","t"," ","c","l","a","s","s"," ","B","a","r"," ",
      "{","\n">>
L_constructor ==
    <<" "," ","c","o","n","s","t","r","u","c","t","o","r","(","a",","," ",
      "b",")"," ","{","\n">>
L_method ==
    <<" "," ","g","o","(","n",")"," ","{","\n">>
L_getter ==
    <<" "," ","g","e","t"," ","x","(",")"," ","{","\n">>
L_attribute ==
    <<" "," "," "," ","t","h","i","s",".","y"," ","="," ","1","\n">>
L_export_let ==
    <<"e","x","p","o","r","t"," ","l","e","t"," ","z"," ","="," ","1","\n">>
L_brace ==
    <<"}","\n">>
Lines ==
    {L_doc, L_open_foo, L_continue, L_class, L_constructor, L_attribute,
     L_brace}

\* Files of narrative blocks.
NarrLines == {L_open_foo, L_open_bar, L_continue, L_brace}

\* Files of documented classes.
ClassLines == {L_doc, L_export_class, L_method, L_export_let}

\* One file of narrative blocks and documented constructs.
MixPaths == {P_game}

\* Files of the modules zeta, alpha and mid.
P_zeta ==
    <<".",".","/","s","r","c","/","z","e","t","a",".","j","s">>

P_alpha ==
    <<".",".","/","s","r","c","/","a","l","p","h","a",".","j","s">>

P_mid ==
    <<".",".","/","s","r","c","/","m","i","d",".","j","s">>

IndexPaths == {P_zeta, P_alpha, P_mid}

ExportLines == {L_doc, L_export_let}

MixLines ==
    {L_doc, L_open_foo, L_continue, L_class, L_constructor, L_method,
     L_getter, L_export_let}

\* ----------------------------------------------------------------- state
VARIABLES
    input,          \* what the enumerated files are made of (fixed in a run)
    pc,             \* where main is: "start", "scan", "written", "aborted"
                    \* (a line raised), "write_failed" (a write raised)
    modules,        \* RootNode.modules: module name -> address
    files,          \* RootNode.files: file name -> address
    heap,           \* the Node objects, by address 1..Len(heap)
    path,           \* FileProcessor.path of the current processor
    buffer,         \* FileProcessor.buffer (NoBuffer is None)
    current_class,  \* FileProcessor.current_class (address or None)
    last_codedoc,   \* FileProcessor.last_codedoc (None: attribute not set)
    post_state,     \* FileProcessor.post_state ("unset", "None", "class")
    written,        \* the files main has written: path -> text
    paths,          \* history: the paths processed so far, in order
    log             \* history: one record per line read so far

vars ==
    <<input, pc, modules, files, heap, path, buffer, current_class,
      last_codedoc, post_state, written, paths, log>>

\* FileProcessor.buffer is None.  The list is never empty between two
\* calls of process_line: line 86 appends right after line 85 creates it.
NoBuffer == <<>>

\* A dict with no key.
EmptyDict == [k \in {} |-> None]

\* The tree as one value.
Tree == [modules |-> modules, files |-> files, heap |-> heap]

\* ------------------------------------------- FileProcessor.process_post_comment
\* The outcome of one call: the tree, the processor's fields, the branch
\* taken (rule), the object the buffer went to (node) and whether the call
\* raised (fault).
Outcome(D, cc, lc, ps, rule, node, fault) ==
    [D |-> D, current_class |-> cc, last_codedoc |-> lc, post_state |-> ps,
     rule |-> rule, node |-> node, fault |-> fault]

\* RuleCodedoc with a new node for every '>> <token>' block, in place of
\* the node root.file would find.
RuleCodedocFresh(D, buf, cc, ps) ==
    LET file_name == S_codedoc_dir \o CODEDOC_RE(buf[1]).g1 \o S_txt
        n == Len(D.heap) + 1
        h == add_text(Append(D.heap, NewNode("Node", <<>>, None)), n, Tail(buf))
        fs == [fn \in DOMAIN D.files \cup {file_name} |->
                 IF fn = file_name THEN n ELSE D.files[fn]]
    IN  Outcome([D EXCEPT !.heap = h, !.files = fs], cc, n, ps, "codedoc", n, FALSE)

\* lines 102-106
RuleCodedoc(D, buf, cc, ps) ==
    LET file_name == S_codedoc_dir \o CODEDOC_RE(buf[1]).g1 \o S_txt
        r == file(D, file_name, NewNode("Node", <<>>, None))
        h == add_text(r.D.heap, r.node, Tail(buf))
    IN  Outcome([r.D EXCEPT !.heap = h], cc, r.node, ps, "codedoc", r.node, FALSE)

\* RuleContinue with the missing attribute guarded: a '>>' block with no
\* last narrative node is dropped instead of raising.
RuleContinueSilent(D, buf, cc, lc, ps) ==
    IF lc = None
    THEN Outcome(D, cc, lc, ps, "continue", None, FALSE)
    ELSE Outcome([D EXCEPT !.heap = add_text(@, lc, Tail(buf))],
                 cc, lc, ps, "continue", lc, FALSE)

\* lines 118-119; reading an attribute that was never set raises
RuleContinue(D, buf, cc, lc, ps) ==
    IF lc = None
    THEN Outcome(D, cc, lc, ps, "continue", None, TRUE)
    ELSE Outcome([D EXCEPT !.heap = add_text(@, lc, Tail(buf))],
                 cc, lc, ps, "continue", lc, FALSE)

\* RuleClass as get-or-create: a ClassNode of that name in the module is
\* used again.
RuleClassOnce(D, buf, name, p, cc, lc, ps) ==
    IF ~MODULE_RE(p).ok
    THEN Outcome(D, cc, lc, ps, "class", None, TRUE)
    ELSE LET r == module_doc(D, p)
             c == r.D.heap[r.node].contents
             old == {i \in 1..Len(c) :
                       /\ c[i].isnode
                       /\ r.D.heap[c[i].node].kind = "ClassNode"
                       /\ r.D.heap[c[i].node].name = name}
             n == IF old = {} THEN Len(r.D.heap) + 1
                  ELSE c[CHOOSE i \in old : TRUE].node
             h1 == IF old = {}
                   THEN add(Append(r.D.heap, NewNode("ClassNode", name, r.node)),
                            r.node, NodeItem(n))
                   ELSE r.D.heap
             h2 == add_text(h1, n, buf)
         IN  Outcome([r.D EXCEPT !.heap = h2], n, lc, "class", "class", n, FALSE)

\* lines 133-138; module_doc raises where MODULE_RE finds no match
RuleClass(D, buf, name, p, cc, lc, ps) ==
    IF ~MODULE_RE(p).ok
    THEN Outcome(D, cc, lc, ps, "class", None, TRUE)
    ELSE LET r == module_doc(D, p)
             n == Len(r.D.heap) + 1
             h1 == Append(r.D.heap, NewNode("ClassNode", name, r.node))
             h2 == add(h1, r.node, NodeItem(n))
             h3 == add_text(h2, n, buf)
         IN  Outcome([r.D EXCEPT !.heap = h3], n, lc, "class", "class", n, FALSE)

\* RuleMember adding the new node to the module of the class instead of
\* the class.
RuleMemberInModule(D, buf, kind, name, cc, lc, ps) ==
    LET n == Len(D.heap) + 1
        h1 == Append(D.heap, NewNode(kind, name, cc))
        h2 == add_text(h1, n, buf)
        h3 == add(h2, D.heap[cc].parent, NodeItem(n))
    IN  Outcome([D EXCEPT !.heap = h3], cc, lc, ps,
                IF kind = "MethodNode" THEN "method" ELSE "attribute", n, FALSE)

\* lines 145-148 (kind "MethodNode") and 161-164 (kind "AttributeNode")
RuleMember(D, buf, kind, name, cc, lc, ps) ==
    LET n == Len(D.heap) + 1
        h1 == Append(D.heap, NewNode(kind, name, cc))
        h2 == add_text(h1, n, buf)
        h3 == add(h2, cc, NodeItem(n))
    IN  Outcome([D EXCEPT !.heap = h3], cc, lc, ps,
                IF kind = "MethodNode" THEN "method" ELSE "attribute", n, FALSE)

\* lines 171-175
RuleData(D, buf, name, p, cc, lc, ps) ==
    IF ~MODULE_RE(p).ok
    THEN Outcome(D, cc, lc, ps, "data", None, TRUE)
    ELSE LET r == module_doc(D, p)
             n == Len(r.D.heap) + 1
             h1 == Append(r.D.heap, NewNode("DataNode", name, r.node))
             h2 == add_text(h1, n, buf)
             h3 == add(h2, r.node, NodeItem(n))
         IN  Outcome([r.D EXCEPT !.heap = h3], cc, lc, ps, "data", n, FALSE)

\* lines 176-178: self.match(1) calls (1).match and raises
RuleConstructor(D, line, cc, lc, ps) ==
    IF CONSTRUCTOR_RE(line).ok
    THEN Outcome(D, cc, lc, ps, "constructor", None, TRUE)
    ELSE Outcome(D, cc, lc, ps, "nomatch", None, FALSE)

\* process_post_comment with the construct rules tried before the
\* narrative rules.
process_post_comment_constructs_first(D, ps, buf, line, p, cc, lc) ==
    IF CLASS_RE(line).ok
    THEN RuleClass(D, buf, CLASS_RE(line).g1, p, cc, lc, ps)
    ELSE IF cc # None /\ METHOD_RE(line).ok
    THEN RuleMember(D, buf, "MethodNode", METHOD_RE(line).g1, cc, lc, ps)
    ELSE IF cc # None /\ (GETTER_RE(line).ok \/ ATTRIBUTE_RE(line).ok)
    THEN RuleMember(D, buf, "AttributeNode",
                    IF GETTER_RE(line).ok THEN GETTER_RE(line).g1
                    ELSE ATTRIBUTE_RE(line).g1, cc, lc, ps)
    ELSE IF EXPORT_LET_RE(line).ok
    THEN RuleData(D, buf, EXPORT_LET_RE(line).g1, p, cc, lc, ps)
    ELSE IF CODEDOC_RE(buf[1]).ok
    THEN RuleCodedoc(D, buf, cc, ps)
    ELSE IF buf[1] = S_marker
    THEN RuleContinue(D, buf, cc, lc, ps)
    ELSE Outcome(D, cc, lc, ps, "nomatch", None, FALSE)

\* The whole cascade: ps is self.post_state on entry, buf the buffer, line
\* the stripped triggering line, p the path, cc and lc the processor's
\* current_class and last_codedoc.  With post_state never assigned ("unset")
\* the test of line 93 raises AttributeError.
process_post_comment(D, ps, buf, line, p, cc, lc) ==
    IF ps = "None"
    THEN IF CODEDOC_RE(buf[1]).ok
         THEN RuleCodedoc(D, buf, cc, ps)
         ELSE IF buf[1] = S_marker
         THEN RuleContinue(D, buf, cc, lc, ps)
         ELSE IF CLASS_RE(line).ok
         THEN RuleClass(D, buf, CLASS_RE(line).g1, p, cc, lc, ps)
         ELSE IF cc # None /\ METHOD_RE(line).ok
         THEN RuleMember(D, buf, "MethodNode", METHOD_RE(line).g1, cc, lc, ps)
         ELSE IF cc # None /\ (GETTER_RE(line).ok \/ ATTRIBUTE_RE(line).ok)
         THEN RuleMember(D, buf, "AttributeNode",
                         IF GETTER_RE(line).ok THEN GETTER_RE(line).g1
                         ELSE ATTRIBUTE_RE(line).g1, cc, lc, ps)
         ELSE IF EXPORT_LET_RE(line).ok
         THEN RuleData(D, buf, EXPORT_LET_RE(line).g1, p, cc, lc, ps)
         ELSE Outcome(D, cc, lc, ps, "nomatch", None, FALSE)
    ELSE IF ps = "class"
    THEN RuleConstructor(D, line, cc, lc, ps)
    ELSE Outcome(D, cc, lc, ps, "nomatch", None, TRUE)

\* self.post_state as process_line leaves it for process_post_comment
\* (line 88).
EntryPostState(ps) == "None"

\* --------------------------------------------------------------- actions
\* A record of the history: the number of the file, the line as read, the
\* branch taken and the object the buffer went to.
Event(raw, rule, node) ==
    [file |-> Len(paths), raw |-> raw, rule |-> rule, node |-> node]

\* process without line 69: the class active at the end of a file stays
\* active in the next.
process_keep_class(p) ==
    /\ pc \in {"start", "scan"}
    /\ Len(paths) < input.files
    /\ p \in input.paths
    /\ input.again \/ \A k \in 1..Len(paths) : paths[k] # p
    /\ path' = p
    /\ buffer' = NoBuffer
    /\ current_class' = current_class
    /\ last_codedoc' = None
    /\ post_state' = "unset"
    /\ paths' = Append(paths, p)
    /\ pc' = "scan"
    /\ UNCHANGED <<input, modules, files, heap, written, log>>

\* process with the buffer kept from the processor before: the buffer as
\* state of the run instead of the file.
process_keep_buffer(p) ==
    /\ pc \in {"start", "scan"}
    /\ Len(paths) < input.files
    /\ p \in input.paths
    /\ input.again \/ \A k \in 1..Len(paths) : paths[k] # p
    /\ path' = p
    /\ buffer' = buffer
    /\ current_class' = None
    /\ last_codedoc' = None
    /\ post_state' = "unset"
    /\ paths' = Append(paths, p)
    /\ pc' = "scan"
    /\ UNCHANGED <<input, modules, files, heap, written, log>>

\* process with last_codedoc kept from the processor before: the last
\* narrative node as state of the run instead of the file.
process_shared(p) ==
    /\ pc \in {"start", "scan"}
    /\ Len(paths) < input.files
    /\ p \in input.paths
    /\ input.again \/ \A k \in 1..Len(paths) : paths[k] # p
    /\ path' = p
    /\ buffer' = NoBuffer
    /\ current_class' = None
    /\ last_codedoc' = last_codedoc
    /\ post_state' = "unset"
    /\ paths' = Append(paths, p)
    /\ pc' = "scan"
    /\ UNCHANGED <<input, modules, files, heap, written, log>>

\* main, lines 272-274: the enumerator yields p (the file before it, if
\* any, is at its end); FileProcessor.__init__ and the head of process().
process(p) ==
    /\ pc \in {"start", "scan"}
    /\ Len(paths) < input.files
    /\ p \in input.paths
    /\ input.again \/ \A k \in 1..Len(paths) : paths[k] # p
    /\ path' = p
    /\ buffer' = NoBuffer
    /\ current_class' = None
    /\ last_codedoc' = None
    /\ post_state' = "unset"
    /\ paths' = Append(paths, p)
    /\ pc' = "scan"
    /\ UNCHANGED <<input, modules, files, heap, written, log>>

\* process_line without the test of line 87: a line read with no buffer
\* is routed with a block of one empty comment line.
process_line_undocumented(raw) ==
    /\ pc = "scan"
    /\ Len(log) < input.limit
    /\ raw \in input.lines
    /\ LET current_line == strip(raw)
           m == COMMENT_RE(current_line)
           r == process_post_comment(Tree, EntryPostState(post_state),
                                     IF buffer = NoBuffer THEN << <<>> >>
                                     ELSE buffer,
                                     current_line, path, current_class,
                                     last_codedoc)
       IN  IF m.ok
           THEN /\ buffer' = Append(buffer, IF m.has1 THEN m.g1 ELSE <<>>)
                /\ log' = Append(log, Event(raw, "comment", None))
                /\ UNCHANGED <<pc, modules, files, heap, current_class,
                               last_codedoc, post_state>>
           ELSE /\ modules' = r.D.modules
                /\ files' = r.D.files
                /\ heap' = r.D.heap
                /\ current_class' = r.current_class
                /\ last_codedoc' = r.last_codedoc
                /\ post_state' = r.post_state
                /\ buffer' = IF r.fault THEN buffer ELSE NoBuffer
                /\ pc' = IF r.fault THEN "aborted" ELSE pc
                /\ log' = Append(log, Event(raw, r.rule, r.node))
    /\ UNCHANGED <<input, path, written, paths>>

\* process_line without line 90: the buffer stays open after it was routed.
process_line_keep(raw) ==
    /\ pc = "scan"
    /\ Len(log) < input.limit
    /\ raw \in input.lines
    /\ LET current_line == strip(raw)
           m == COMMENT_RE(current_line)
           r == process_post_comment(Tree, EntryPostState(post_state), buffer,
                                     current_line, path, current_class,
                                     last_codedoc)
       IN  IF m.ok
           THEN /\ buffer' = Append(buffer, IF m.has1 THEN m.g1 ELSE <<>>)
                /\ log' = Append(log, Event(raw, "comment", None))
                /\ UNCHANGED <<pc, modules, files, heap, current_class,
                               last_codedoc, post_state>>
           ELSE IF buffer # NoBuffer
           THEN /\ modules' = r.D.modules
                /\ files' = r.D.files
                /\ heap' = r.D.heap
                /\ current_class' = r.current_class
                /\ last_codedoc' = r.last_codedoc
                /\ post_state' = r.post_state
                /\ buffer' = buffer
                /\ pc' = IF r.fault THEN "aborted" ELSE pc
                /\ log' = Append(log, Event(raw, r.rule, r.node))
           ELSE /\ log' = Append(log, Event(raw, "ignored", None))
                /\ UNCHANGED <<pc, modules, files, heap, buffer,
                               current_class, last_codedoc, post_state>>
    /\ UNCHANGED <<input, path, written, paths>>

\* FileProcessor.process, lines 71-73, and process_line: the file yields
\* the line raw.
process_line(raw) ==
    /\ pc = "scan"
    /\ Len(log) < input.limit
    /\ raw \in input.lines
    /\ LET current_line == strip(raw)
           m == COMMENT_RE(current_line)
           r == process_post_comment(Tree, EntryPostState(post_state), buffer,
                                     current_line, path, current_class,
                                     last_codedoc)
       IN  IF m.ok
           THEN /\ buffer' = Append(buffer, IF m.has1 THEN m.g1 ELSE <<>>)
                /\ log' = Append(log, Event(raw, "comment", None))
                /\ UNCHANGED <<pc, modules, files, heap, current_class,
                               last_codedoc, post_state>>
           ELSE IF buffer # NoBuffer
           THEN /\ modules' = r.D.modules
                /\ files' = r.D.files
                /\ heap' = r.D.heap
                /\ current_class' = r.current_class
                /\ last_codedoc' = r.last_codedoc
                /\ post_state' = r.post_state
                /\ buffer' = IF r.fault THEN buffer ELSE NoBuffer
                /\ pc' = IF r.fault THEN "aborted" ELSE pc
                /\ log' = Append(log, Event(raw, r.rule, r.node))
           ELSE /\ log' = Append(log, Event(raw, "ignored", None))
                /\ UNCHANGED <<pc, modules, files, heap, buffer,
                               current_class, last_codedoc, post_state>>
    /\ UNCHANGED <<input, path, written, paths>>

\* ------------------------------------------------------ the output files
S_slash == <<"/">>

S_dot == <<".">>

S_dotdot == <<".", ".">>

\* The directory main opens the index in.
S_modules ==
    <<"m","o","d","u","l","e","s">>

S_docs ==
    <<"d","o","c","s">>

S_bemuse ==
    <<"b","e","m","u","s","e">>

S_build ==
    <<"b","u","i","l","d">>

\* The working directory main is run in, as the names from the root of the
\* file system.  The source fixes none: it reads '../src' and '../docs'
\* and writes '_codedoc/...' and 'modules/...' from wherever it runs.  The
\* directories tried: docs below the root, docs in a checkout (which
\* '../docs' reaches again), and a directory next to docs and src.
WorkingDirs == {<<S_docs>>, <<S_bemuse, S_docs>>, <<S_bemuse, S_build>>}

\* The working directories inside a checkout: the one '../docs' leads back
\* to, and one it does not.
InCheckout == {<<S_bemuse, S_docs>>, <<S_bemuse, S_build>>}

\* The one working directory of the runs that vary the source files only.
InDocs == {<<S_bemuse, S_docs>>}

\* What the working directory holds before main writes, besides the
\* source files: nothing, or the directory modules/ of an earlier run.
OutDirs == {{}, {S_modules}}

\* The limits of the platform the calls of lines 33, 278 and 280 meet: the
\* bytes of one name (NAME_MAX), the bytes of a path handed to the system
\* (PATH_MAX, less the closing zero), and the calls of os.makedirs the
\* interpreter nests inside main and mkpath, for a relative path none of
\* whose names is there, before its recursion limit (1000 frames) raises
\* RuntimeError.
NameMax == 255

PathMax == 4095

MakedirsDepth == 996

\* The positions of path p that hold a slash, in order.
slashes(p) == SelectSeq([i \in 1..Len(p) |-> i], LAMBDA i : p[i] = "/")

\* The pieces of p between the positions cut, which are in order.
pieces(p, cut) ==
    <<>> \o [k \in 1..(Len(cut) - 1) |->
                SubSeq(p, cut[k] + 1, cut[k + 1] - 1)]

\* The names between the slashes of path p.
components(p) == pieces(p, <<0>> \o slashes(p) \o <<Len(p) + 1>>)

\* os.path.dirname: the path up to its last slash, without trailing
\* slashes (unless it is slashes only).
dirname(p) ==
    LET cut == slashes(p)
        head == SubSeq(p, 1, cut[Len(cut)])
        kept == SelectSeq([i \in 1..Len(head) |-> i],
                          LAMBDA i : head[i] # "/")
    IN  IF cut = <<>> THEN <<>>
        ELSE IF kept = <<>> THEN head
        ELSE SubSeq(head, 1, kept[Len(kept)])

\* A disk: its working directory, the directories and the files it holds
\* (besides the working directory and the directories above it), and
\* whether the last call on it returned (ok) or raised.  A place is named
\* by its path from the working directory: a '..' for every directory left
\* on the way up, then the names down.  Two paths of one place have one
\* name; <<>> is the working directory.
Disk(cwd, dirs, fs) == [cwd |-> cwd, dirs |-> dirs, files |-> fs, ok |-> TRUE]

\* The root of the file system of disk FS.
Root(FS) == [k \in 1..Len(FS.cwd) |-> S_dotdot]

\* Where a path is followed from: the root for an absolute path, the
\* working directory for any other.
From(FS, p) == IF p # <<>> /\ p[1] = "/" THEN Root(FS) ELSE <<>>

\* The place above place: the root is its own parent.
up(FS, place) ==
    IF place # <<>> /\ place[Len(place)] # S_dotdot
    THEN SubSeq(place, 1, Len(place) - 1)
    ELSE IF Len(place) < Len(FS.cwd) THEN Append(place, S_dotdot)
    ELSE place

\* The place of name c in place: from a directory above the working
\* directory, the name of the directory left last leads back.
down(FS, place, c) ==
    IF /\ place # <<>>
       /\ place[Len(place)] = S_dotdot
       /\ c = FS.cwd[Len(FS.cwd) - Len(place) + 1]
    THEN SubSeq(place, 1, Len(place) - 1)
    ELSE Append(place, c)

\* The name the disk keeps a place under.
rel(place) == join(S_slash, place)

\* The place is a directory of disk FS: the working directory, one of the
\* directories above it, or a directory the disk holds.
isdir(FS, place) ==
    \/ place = <<>>
    \/ place[Len(place)] = S_dotdot
    \/ rel(place) \in FS.dirs

\* The names of cs that are not empty: one call of os.makedirs each.
names(cs) == SelectSeq(cs, LAMBDA c : c # <<>>)

\* The file system follows the names cs from the place stack; used is the
\* length of the path before them.  An empty name stays; '.' stays and
\* '..' goes up; any other name goes down: into a directory that is
\* there, into one made on the way when create is set (os.makedirs), and
\* not at all (ok becomes FALSE: OSError, IOError or RuntimeError) where
\* the name is a file or, with create not set, is missing.
\* With create set every name from the first missing one on is a nested
\* call of os.makedirs; made tells that the walk is past that name.
\*   - The calls nest before any directory is made, and the innermost
\*     splits its path once more: MakedirsDepth calls fit under the
\*     recursion limit where nothing stands before the first missing name,
\*     one less where something does (posixpath.split then compares the
\*     head, one level deeper).  More raise with nothing made.
\*   - A call ends in os.mkdir of the path up to its name (of the whole
\*     path for the last name), which raises for a name over NameMax or a
\*     path over PathMax, after the directories before it are made.  A
\*     call that has made its head returns at '.' without os.mkdir.
\*   - A nested call passes over EEXIST (line 'if e.errno != EEXIST' of
\*     os.makedirs), so a file met past the first missing name raises
\*     only where a name other than '.' follows or none does.
RECURSIVE Walk(_, _, _, _, _, _)
Walk(FS, stack, cs, create, used, made) ==
    IF cs = <<>> \/ ~FS.ok THEN [FS |-> FS, stack |-> stack]
    ELSE LET c == Head(cs)
             rest == Tail(cs)
             after == used + Len(c) + 1
             \* the path os.mkdir is called with for this name
             called == used + Len(c)
                           + (IF names(rest) = <<>> THEN Len(rest) ELSE 0)
             \* the calls of os.makedirs that nest where this name is the
             \* first missing one
             depth == IF used = 0 THEN MakedirsDepth ELSE MakedirsDepth - 1
             fail == [FS |-> [FS EXCEPT !.ok = FALSE], stack |-> stack]
         IN  IF c = <<>>
             THEN Walk(FS, stack, rest, create, after, made)
             ELSE IF create /\ made /\ c = S_dot
             THEN Walk(FS, stack, rest, create, after, made)
             ELSE IF create /\ (Len(c) > NameMax \/ called > PathMax)
             THEN fail
             ELSE IF c = S_dot
             THEN Walk(FS, stack, rest, create, after, made)
             ELSE IF c = S_dotdot
             THEN Walk(FS, up(FS, stack), rest, create, after, made)
             ELSE LET place == down(FS, stack, c)
                  IN  IF rel(place) \in DOMAIN FS.files
                      THEN IF /\ create /\ made /\ names(rest) # <<>>
                              /\ \A k \in DOMAIN rest : rest[k] \in {<<>>, S_dot}
                           THEN [FS |-> FS, stack |-> stack]
                           ELSE fail
                      ELSE IF isdir(FS, place)
                      THEN Walk(FS, place, rest, create, after, made)
                      ELSE IF create /\ Len(names(cs)) <= depth
                      THEN Walk([FS EXCEPT !.dirs = @ \cup {rel(place)}],
                                place, rest, create, after, TRUE)
                      ELSE fail

\* mkpath (lines 31-38): os.makedirs, content with a directory that is
\* there; it raises where a name on the way is a file, where a limit of
\* the platform is passed, and for the empty path (os.makedirs('') fails
\* with ENOENT, which line 38 raises again).
mkpath(FS, p) ==
    IF p = <<>> THEN [FS EXCEPT !.ok = FALSE]
    ELSE Walk(FS, From(FS, p), components(p), TRUE, 0, FALSE).FS

\* open(filename, 'w') and f.write(text), lines 278-279 and 280-287: the
\* file is made or truncated.  It raises where the directory is missing or
\* a name on the way is a file, where the name is a directory, and where
\* the name is over NameMax or the path over PathMax.
open_w(FS, filename, text) ==
    LET cs == components(filename)
        last == cs[Len(cs)]
        r == Walk(FS, From(FS, filename), SubSeq(cs, 1, Len(cs) - 1),
                  FALSE, 0, FALSE)
        place == down(FS, r.stack, last)
        key == rel(place)
    IN  IF Len(filename) > PathMax THEN [FS EXCEPT !.ok = FALSE]
        ELSE IF ~r.FS.ok THEN r.FS
        ELSE IF \/ last \in {<<>>, S_dot, S_dotdot}
                \/ Len(last) > NameMax
                \/ isdir(FS, place)
        THEN [FS EXCEPT !.ok = FALSE]
        ELSE [FS EXCEPT !.files = (key :> text) @@ @]

\* The text of source file f of the run: the lines read from it (line 71).
RECURSIVE source_text(_, _)
source_text(lg, f) ==
    IF lg = <<>> THEN <<>>
    ELSE (IF Head(lg).file = f THEN Head(lg).raw ELSE <<>>)
             \o source_text(Tail(lg), f)

\* Every path of the inputs, each with the disk that holds just the file
\* of that path (without text) and the directories it is in, for every
\* working directory.
SourcePaths ==
    Paths \cup ClassPaths \cup NarrPaths \cup MixPaths \cup IndexPaths

alone(cwd, p) ==
    open_w(mkpath(Disk(cwd, {}, EmptyDict), dirname(p)), p, <<>>)

Alone == [cwd \in WorkingDirs |-> [p \in SourcePaths |-> alone(cwd, p)]]

\* The disk FS with the first f source files of the run in their
\* directories: the files get_source_files found are there when main
\* writes.
RECURSIVE source_files(_, _, _, _)
source_files(FS, ps, lg, f) ==
    IF f = 0 THEN FS
    ELSE LET below == source_files(FS, ps, lg, f - 1)
             one == IF FS.cwd \in WorkingDirs /\ ps[f] \in SourcePaths
                    THEN Alone[FS.cwd][ps[f]]
                    ELSE alone(FS.cwd, ps[f])
             name == CHOOSE k \in DOMAIN one.files : TRUE
         IN  [below EXCEPT
                 !.dirs = @ \cup one.dirs,
                 !.files = (name :> source_text(lg, f)) @@ @]

\* The orders a loop over the keys of dict S can take.
Orders(S) ==
    {o \in [1..Cardinality(S) -> S] :
        \A i \in DOMAIN o : \A j \in DOMAIN o : o[i] = o[j] => i = j}

\* Lines 275-279 for the file names of order, from the first: the loop
\* ends at the first name that raises.  texts gives str(root.files[name]).
RECURSIVE write_each(_, _, _)
write_each(FS, order, texts) ==
    IF order = <<>> \/ ~FS.ok THEN FS
    ELSE LET made == mkpath(FS, dirname(Head(order)))
         IN  write_each(IF made.ok
                        THEN open_w(made, Head(order), texts[Head(order)])
                        ELSE made,
                        Tail(order), texts)

\* What main wrote: the files of disk after that disk before does not
\* hold, or holds with another text.
output(before, after) ==
    [k \in {k \in DOMAIN after.files :
               k \notin DOMAIN before.files
                   \/ after.files[k] # before.files[k]} |-> after.files[k]]

\* main, lines 275-287: the files of root.files are written one by one, in
\* the order of the dict, each after mkpath of its directory; then the
\* index is opened in modules/, for which main makes no directory.  The
\* first call that raises ends main: the files written before stay.
\* written is what main has put on the disk in the end, by path from the
\* working directory.
write_files ==
    /\ pc \in {"start", "scan"}
    /\ \E texts \in {[fn \in DOMAIN files |-> str(heap, files[fn])]} :
       \E index_text \in {index_rst(modules)} :
       \E cwd \in input.cwds :
       \E sources \in {source_files(Disk(cwd, {}, EmptyDict), paths, log,
                                    Len(paths))} :
       \E dirs \in OutDirs :
       \E order \in Orders(DOMAIN files) :
           LET before == [sources EXCEPT !.dirs = @ \cup dirs]
               disk == write_each(before, order, texts)
               done == IF disk.ok
                       THEN open_w(disk, S_index_rst, index_text)
                       ELSE disk
           IN  /\ written' = output(before, done)
               /\ pc' = IF done.ok THEN "written" ELSE "write_failed"
    /\ UNCHANGED <<input, modules, files, heap, path, buffer, current_class,
                   last_codedoc, post_state, paths, log>>

\* main, line 271, before the loop; no FileProcessor exists yet.
Start(inp) ==
    /\ input = inp
    /\ pc = "start"
    /\ modules = EmptyDict
    /\ files = EmptyDict
    /\ heap = <<>>
    /\ path = <<>>
    /\ buffer = NoBuffer
    /\ current_class = None
    /\ last_codedoc = None
    /\ post_state = "unset"
    /\ written = EmptyDict
    /\ paths = <<>>
    /\ log = <<>>

\* The enumerated files: their paths, their lines, whether the driver may
\* hand the same path to a second FileProcessor (main never does), the
\* bound on the lines read, and the working directories main is run in.
Input(ps, ls, again, limit) ==
    [paths |-> ps, lines |-> ls, again |-> again, limit |-> limit,
     files |-> MaxFiles, cwds |-> InDocs]

Init ==
    Start([Input(Paths, Lines, FALSE, MaxLines) EXCEPT !.cwds = InCheckout])

InitNarr == Start(Input(NarrPaths, NarrLines, FALSE, MaxNarrLines))

InitNarrOne == Start(Input(MixPaths, NarrLines, FALSE, MaxNarrOneLines))

InitClass == Start(Input(ClassPaths, ClassLines, TRUE, MaxClassLines))

InitMix == Start(Input(MixPaths, MixLines, FALSE, MaxMixLines))

InitIndex ==
    Start([Input(IndexPaths, ExportLines, FALSE, MaxIndexLines)
               EXCEPT !.files = MaxIndexFiles, !.cwds = WorkingDirs])

Next ==
    \/ \E p \in input.paths : process(p)
    \/ \E raw \in input.lines : process_line(raw)
    \/ write_files

\* Source files of every shape, main run in a checkout.
Spec == Init /\ [][Next]_vars

\* Files of narrative blocks.
SpecNarr == InitNarr /\ [][Next]_vars

\* One file of narrative blocks.
SpecNarrOne == InitNarrOne /\ [][Next]_vars

\* Files of documented classes, which may be processed twice.
SpecClass == InitClass /\ [][Next]_vars

\* One file of narrative blocks and documented constructs.
SpecMix == InitMix /\ [][Next]_vars

\* Files of several modules, each with documented exports, main run in
\* every working directory.
SpecIndex == InitIndex /\ [][Next]_vars

\* ------------------------------------------------- reading the history
\* The claims are stated over the lines the run has read, not over the
\* branch process_post_comment reports.

\* The comment match of every line of lg (lg is log or log').
Comments(lg) == [k \in 1..Len(lg) |-> COMMENT_RE(strip(lg[k].raw))]

\* First line of the run of comment lines that ends right before line k
\* in the file of line k (k itself when there is no such run).
RECURSIVE BlockStart(_, _, _)
BlockStart(lg, cm, k) ==
    IF k > 1 /\ lg[k - 1].file = lg[k].file /\ cm[k - 1].ok
    THEN BlockStart(lg, cm, k - 1)
    ELSE k

\* The history as the claims read it (a formula binds it once, as the
\* element of a singleton set): for every line its file, the line
\* stripped, whether it is a comment line, the comment block right before
\* it (the text of the block's lines), and the object process_line sent
\* the block to.
History(lg) ==
    LET cm == Comments(lg)
    IN  [k \in 1..Len(lg) |->
            LET j == BlockStart(lg, cm, k)
            IN  [file |-> lg[k].file,
                 line |-> strip(lg[k].raw),
                 comment |-> cm[k].ok,
                 block |-> [i \in 1..(k - j) |-> cm[j + i - 1].g1],
                 node |-> lg[k].node]]

\* Line k is a triggering line: not a comment, right after a comment block.
IsTrigger(H, k) == ~H[k].comment /\ H[k].block # <<>>

\* Line k triggers a block whose first line is '>> <token>'.
IsOpen(H, k) == IsTrigger(H, k) /\ CODEDOC_RE(H[k].block[1]).ok

\* Line k triggers a block whose first line is exactly '>>'.
IsContinue(H, k) == IsTrigger(H, k) /\ H[k].block[1] = S_marker

\* Line k triggers a block that is not a narrative block.
IsConstruct(H, k) == IsTrigger(H, k) /\ ~IsOpen(H, k) /\ ~IsContinue(H, k)

\* The narrative file a block '>> <token>' before line k names.
NarrativeFile(H, k) == S_codedoc_dir \o CODEDOC_RE(H[k].block[1]).g1 \o S_txt

\* The text a narrative block before line k carries: all but the marker.
NarrativeText(H, k) == TextItem(join(S_nl, Tail(H[k].block)))

\* The narrative blocks opened in file f before line k.
OpensBefore(H, k, f) == {j \in 1..(k - 1) : H[j].file = f /\ IsOpen(H, j)}

\* The narrative blocks opened in any file before line k.
OpensInRunBefore(H, k) == {j \in 1..(k - 1) : IsOpen(H, j)}

Latest(S) == CHOOSE j \in S : \A i \in S : i <= j

\* Line k is a documented class declaration in a file with a module.
IsClassDecl(H, k) ==
    IsConstruct(H, k) /\ CLASS_RE(H[k].line).ok /\ MODULE_RE(paths[H[k].file]).ok

\* This step reads a line.
Reads == Len(log') = Len(log) + 1

\* The history after a step that reads a line (no other step is asked
\* about its lines).
StepHistory == IF Reads THEN History(log') ELSE <<>>

\* The tree and the processor's references are as before the step.
SameDocument ==
    /\ modules' = modules
    /\ files' = files
    /\ heap' = heap
    /\ current_class' = current_class
    /\ last_codedoc' = last_codedoc

\* ----------------------------------------------------------------- claims
\* C1: when the line right after a documented class declaration is
\* 'constructor(<args>) {', the class renders the directive
\* 'js:class:: <Name>(<args>)'; after any other line it renders
\* 'js:class:: <Name>()'.
C1_ConstructorArguments ==
    \A H \in {History(log)} :
        \A k \in 1..(Len(log) - 1) :
            (IsClassDecl(H, k) /\ H[k + 1].file = H[k].file) =>
                LET c == CONSTRUCTOR_RE(H[k + 1].line)
                    args == IF c.ok THEN c.g1 ELSE <<>>
                IN  directive(heap, H[k].node) =
                        S_js_class \o CLASS_RE(H[k].line).g1
                        \o <<"(">> \o args \o <<")">>

\* C2 as claimed: a '>>' block in a file that opened no narrative block
\* appends to the narrative node most recently opened in an earlier file.
C2_SharedAcrossFiles ==
    [][\A H \in {StepHistory} : LET k == Len(log') IN
           (/\ Reads
            /\ IsContinue(H, k)
            /\ OpensBefore(H, k, Len(paths)) = {}
            /\ OpensInRunBefore(H, k) # {})
           => LET n == files[NarrativeFile(H, Latest(OpensInRunBefore(H, k)))]
              IN  /\ pc' = pc
                  /\ heap' = [heap EXCEPT ![n].contents =
                                Append(@, NarrativeText(H, k))]]_vars

\* C2 as amended: the last narrative node belongs to the file's processor.
\* A '>>' block appends to the narrative node most recently opened earlier
\* in the same file; in a file that opened none it raises and appends
\* nothing, whatever earlier files opened.
C2_LastNarrativePerFile ==
    [][\A H \in {StepHistory} : LET k == Len(log') IN
           (Reads /\ IsContinue(H, k))
           => LET opens == OpensBefore(H, k, Len(paths))
                  n == files[NarrativeFile(H, Latest(opens))]
              IN  IF opens = {}
                  THEN pc' = "aborted" /\ heap' = heap /\ files' = files
                  ELSE /\ pc' = pc
                       /\ files' = files
                       /\ heap' = [heap EXCEPT ![n].contents =
                                     Append(@, NarrativeText(H, k))]]_vars

\* C2 witness: the run aborted on a '>>' block of the second file although
\* the first file had opened a narrative block.
C2_Witness ==
    \A H \in {History(log)} :
        /\ pc = "aborted"
        /\ log # <<>>
        /\ IsContinue(H, Len(log))
        /\ OpensBefore(H, Len(log), Len(paths)) = {}
        /\ OpensInRunBefore(H, Len(log)) # {}

\* C3: a '>>' block with no narrative block opened earlier in the run
\* aborts the run at that line: no node changes, nothing is written, and
\* the aborted run takes no further step.
C3_MissingNarrativeContext ==
    [][\A H \in {StepHistory} : LET k == Len(log') IN
           /\ pc # "aborted"
           /\ (Reads /\ IsContinue(H, k) /\ OpensInRunBefore(H, k) = {})
              => (pc' = "aborted" /\ SameDocument /\ written' = EmptyDict)]_vars

\* C3 witness: the run aborted on a '>>' block, no narrative block having
\* been opened before.
C3_Witness ==
    \A H \in {History(log)} :
        /\ pc = "aborted"
        /\ log # <<>>
        /\ IsContinue(H, Len(log))
        /\ OpensInRunBefore(H, Len(log)) = {}
        /\ written = EmptyDict

\* The narrative file the block before line k goes to: the file a
\* '>> <token>' block names; for a '>>' block the file named by the latest
\* block opened before it in the same file; <<>> for no file.
TargetOf(H, k) ==
    IF IsOpen(H, k) THEN NarrativeFile(H, k)
    ELSE IF IsContinue(H, k) /\ OpensBefore(H, k, H[k].file) # {}
    THEN NarrativeFile(H, Latest(OpensBefore(H, k, H[k].file)))
    ELSE <<>>

\* The narrative file of every line of the history.
Targets(H) == [k \in DOMAIN H |-> TargetOf(H, k)]

\* The texts the blocks before lines 1..k send to the narrative file fn,
\* in the order the lines were read; tg is Targets(H).
RECURSIVE Fragments(_, _, _, _)
Fragments(H, tg, k, fn) ==
    IF k = 0 THEN <<>>
    ELSE IF tg[k] = fn
    THEN Append(Fragments(H, tg, k - 1, fn), NarrativeText(H, k))
    ELSE Fragments(H, tg, k - 1, fn)

\* The narrative files of the tree, and the plain Node objects.
NarrativeFiles == {fn \in DOMAIN files : heap[files[fn]].kind = "Node"}

NarrativeNodes == {n \in 1..Len(heap) : heap[n].kind = "Node"}

\* C4: each narrative block adds exactly one fragment to the node of the
\* file it goes to ('>> name': the file named; '>>': the file of the latest
\* '>> name' before it in the same file), so a narrative node holds the
\* fragments sent to it in the order read; there is one node per narrative
\* file name, also when a name is opened again.
C4_NarrativeFragmentsInOrder ==
    \A H \in {History(log)} : \A tg \in {Targets(H)} :
        /\ \A k \in 1..Len(log) : tg[k] # <<>> => tg[k] \in NarrativeFiles
        /\ \A fn \in NarrativeFiles :
               heap[files[fn]].contents = Fragments(H, tg, Len(log), fn)
        /\ \A fn \in NarrativeFiles : \A gn \in NarrativeFiles :
               files[fn] = files[gn] => fn = gn
        /\ Cardinality(NarrativeNodes) = Cardinality(NarrativeFiles)

\* C4 witness: in one file a block was opened, continued, and then a block
\* of another name was opened, the first node holding its two fragments.
C4_Witness ==
    \A H \in {History(log)} :
        /\ pc = "scan"
        /\ \E i \in 1..Len(log) : \E j \in 1..Len(log) : \E k \in 1..Len(log) :
               /\ i < j /\ j < k
               /\ H[i].file = H[k].file
               /\ IsOpen(H, i)
               /\ IsContinue(H, j)
               /\ IsOpen(H, k)
               /\ TargetOf(H, j) = NarrativeFile(H, i)
               /\ NarrativeFile(H, k) # NarrativeFile(H, i)
               /\ Len(heap[files[NarrativeFile(H, i)]].contents) = 2
               /\ Len(heap[files[NarrativeFile(H, k)]].contents) = 1

\* C5: a block that is not a narrative block, before a line that is no
\* class declaration, no 'export let' and, while a class is active, no
\* method, getter or attribute line, changes nothing: the tree, the active
\* class and the last narrative node stay, and the buffer is cleared.
C5_NoMatchIsNoOp ==
    [][\A H \in {StepHistory} : LET k == Len(log') IN
           (/\ Reads
            /\ IsConstruct(H, k)
            /\ ~CLASS_RE(H[k].line).ok
            /\ ~EXPORT_LET_RE(H[k].line).ok
            /\ ~(/\ current_class # None
                 /\ \/ METHOD_RE(H[k].line).ok
                    \/ GETTER_RE(H[k].line).ok
                    \/ ATTRIBUTE_RE(H[k].line).ok))
           => (SameDocument /\ buffer' = NoBuffer /\ pc' = pc
                            /\ written' = written)]_vars

\* C5 witness: a documented 'this.y = 1' line was read while no class was
\* active, and the tree is still empty.
C5_Witness ==
    \A H \in {History(log)} :
        /\ pc = "scan"
        /\ log # <<>>
        /\ IsConstruct(H, Len(log))
        /\ ATTRIBUTE_RE(H[Len(log)].line).ok
        /\ current_class = None
        /\ heap = <<>>
        /\ buffer = NoBuffer

\* C6 as claimed: a module holds at most one ClassNode of a name, and a
\* ClassNode's index label is '<module-name>; <class-name>'.
C6_OneClassNodePerName ==
    \A m \in DOMAIN modules :
        LET c == heap[modules[m]].contents
        IN  \A i \in 1..Len(c) : \A j \in 1..Len(c) :
                (/\ c[i].isnode /\ heap[c[i].node].kind = "ClassNode"
                 /\ c[j].isnode /\ heap[c[j].node].kind = "ClassNode"
                 /\ heap[c[i].node].name = heap[c[j].node].name)
                => (i = j /\ index(heap, c[i].node) =
                                 m \o S_semi \o heap[c[i].node].name)

\* C6 as amended: rule 3 is create, not get-or-create.  Every documented
\* class declaration in a file with a module appends one new ClassNode to
\* the contents of the file's module, whether or not the module holds a
\* ClassNode of that name, and the node's index label is
\* '<module-name>; <class-name>'; in a file with no module the declaration
\* raises and creates nothing.
C6_ClassNodePerDeclaration ==
    [][\A H \in {StepHistory} : LET k == Len(log') IN
           (Reads /\ IsConstruct(H, k) /\ CLASS_RE(H[k].line).ok)
           => IF MODULE_RE(path).ok
              THEN LET m == modulename(path)
                       n == Len(heap')
                       before == IF m \in DOMAIN modules
                                 THEN heap[modules[m]].contents ELSE <<>>
                   IN  /\ pc' = pc
                       /\ n > Len(heap)
                       /\ m \in DOMAIN modules'
                       /\ heap'[n].kind = "ClassNode"
                       /\ heap'[n].name = CLASS_RE(H[k].line).g1
                       /\ heap'[modules'[m]].contents = Append(before, NodeItem(n))
                       /\ index(heap', n) = m \o S_semi \o heap'[n].name
              ELSE pc' = "aborted" /\ SameDocument]_vars

\* C6 witness: a module holds two ClassNode objects of one name.
C6_Witness ==
    \E m \in DOMAIN modules :
        LET c == heap[modules[m]].contents
        IN  \E i \in 1..Len(c) : \E j \in 1..Len(c) :
                /\ i < j
                /\ c[i].isnode /\ heap[c[i].node].kind = "ClassNode"
                /\ c[j].isnode /\ heap[c[j].node].kind = "ClassNode"
                /\ c[i].node # c[j].node
                /\ heap[c[i].node].name = heap[c[j].node].name

\* The raw lines read from file f.
RawLines(lg, f) ==
    LET ks == SelectSeq([k \in 1..Len(lg) |-> k], LAMBDA k : lg[k].file = f)
    IN  [i \in 1..Len(ks) |-> lg[ks[i]].raw]

\* The lines of file f whose block goes to the module: documented class
\* declarations and documented 'export let' lines, in the order read.
ModuleEntries(H, f) ==
    SelectSeq([k \in DOMAIN H |-> k],
              LAMBDA k : /\ H[k].file = f
                         /\ IsConstruct(H, k)
                         /\ \/ CLASS_RE(H[k].line).ok
                            \/ EXPORT_LET_RE(H[k].line).ok)

\* The number of module entries files 1..f send to the module named m.
RECURSIVE EntriesUpTo(_, _, _)
EntriesUpTo(H, f, m) ==
    IF f = 0 THEN 0
    ELSE EntriesUpTo(H, f - 1, m)
         + (IF MODULE_RE(paths[f]).ok /\ modulename(paths[f]) = m
            THEN Len(ModuleEntries(H, f)) ELSE 0)

\* The two last files are the same file: same path, same lines.
SameFileTwice ==
    /\ Len(paths) >= 2
    /\ paths[Len(paths)] = paths[Len(paths) - 1]
    /\ RawLines(log, Len(paths)) = RawLines(log, Len(paths) - 1)

\* C7: when a file has been processed twice in a row, the module's
\* contents are what they were before, then the entries of the first pass,
\* then as many entries of the second pass: new objects that render the
\* same text as those of the first pass.
C7_ReprocessingDuplicates ==
    (SameFileTwice /\ pc # "aborted" /\ MODULE_RE(path).ok)
    => \A H \in {History(log)} :
           LET f == Len(paths)
               m == modulename(path)
               e1 == ModuleEntries(H, f - 1)
               e2 == ModuleEntries(H, f)
               base == EntriesUpTo(H, f - 2, m)
               c == IF m \in DOMAIN modules
                    THEN heap[modules[m]].contents ELSE <<>>
           IN  /\ Len(e1) = Len(e2)
               /\ Len(c) = base + Len(e1) + Len(e2)
               /\ \A i \in 1..Len(e1) :
                      LET a == c[base + i]
                          b == c[base + Len(e1) + i]
                      IN  /\ a.isnode /\ b.isnode
                          /\ a.node = H[e1[i]].node
                          /\ b.node = H[e2[i]].node
                          /\ a.node # b.node
                          /\ heap[a.node].kind = heap[b.node].kind
                          /\ str(heap, a.node) = str(heap, b.node)

\* C7 witness: a file with a documented class declaration was processed
\* twice, and the module holds the class twice.
C7_Witness ==
    /\ SameFileTwice
    /\ pc = "scan"
    /\ MODULE_RE(path).ok
    /\ \A H \in {History(log)} :
           /\ \E k \in DOMAIN H : H[k].file = Len(paths) /\ IsClassDecl(H, k)
           /\ Len(heap[modules[modulename(path)]].contents)
                  = 2 * Len(ModuleEntries(H, Len(paths)))

\* The number of strings in the contents of the objects of heap h.
RECURSIVE TextCount(_)
TextCount(h) ==
    IF h = <<>> THEN 0
    ELSE Len(SelectSeq(h[Len(h)].contents, LAMBDA it : ~it.isnode))
         + TextCount(SubSeq(h, 1, Len(h) - 1))

\* C8: narrative blocks go first, whatever the triggering line is.  A
\* block whose first line is '>> <token>' or '>>' adds its text to a
\* narrative node (or, for '>>' with no last narrative node, raises) and
\* never creates a Class, Method, Attribute or Data node nor changes a
\* module, a structured node or the active class; and no block of any
\* kind is attached more than once.
C8_NarrativeFirst ==
    [][\A H \in {StepHistory} : LET k == Len(log') IN
           /\ (Reads /\ (IsOpen(H, k) \/ IsContinue(H, k)))
              => /\ current_class' = current_class
                 /\ modules' = modules
                 /\ Len(heap') <= Len(heap) + 1
                 /\ \A n \in (Len(heap) + 1)..Len(heap') : heap'[n].kind = "Node"
                 /\ \A n \in 1..Len(heap) :
                        heap[n].kind # "Node" => heap'[n] = heap[n]
                 /\ IF pc' = "aborted"
                    THEN IsContinue(H, k) /\ heap' = heap /\ files' = files
                    ELSE /\ TextCount(heap') = TextCount(heap) + 1
                         /\ \E fn \in DOMAIN files' :
                                /\ heap'[files'[fn]].kind = "Node"
                                /\ heap'[files'[fn]].contents # <<>>
                                /\ heap'[files'[fn]].contents[
                                       Len(heap'[files'[fn]].contents)]
                                     = NarrativeText(H, k)
                                /\ fn \in DOMAIN files
                                   => Len(heap'[files'[fn]].contents)
                                        = Len(heap[files[fn]].contents) + 1
           /\ Reads => TextCount(heap') <= TextCount(heap) + 1]_vars

\* C8 witness: with a class active, a narrative block stood before a
\* getter line; it went to its narrative node and the class has no member.
C8_Witness ==
    \A H \in {History(log)} :
        /\ pc = "scan"
        /\ log # <<>>
        /\ IsOpen(H, Len(log))
        /\ GETTER_RE(H[Len(log)].line).ok
        /\ current_class # None
        /\ \A n \in 1..Len(heap) : heap[n].kind # "AttributeNode"
        /\ NarrativeFile(H, Len(log)) \in DOMAIN files

\* C9: a line that is no comment, read while no buffer is open, changes
\* nothing, whatever its shape.
C9_NoBufferLineIgnored ==
    [][(/\ Reads
        /\ buffer = NoBuffer
        /\ ~COMMENT_RE(strip(log'[Len(log')].raw)).ok)
       => (SameDocument /\ buffer' = NoBuffer /\ pc' = pc
                        /\ written' = written)]_vars

\* C9 witness: with a class active, a 'this.y = 1' line was read two lines
\* after the class's comment block, and the class has no member.
C9_Witness ==
    \A H \in {History(log)} :
        /\ pc = "scan"
        /\ Len(log) >= 2
        /\ ~H[Len(log)].comment
        /\ H[Len(log)].block = <<>>
        /\ H[Len(log) - 1].file = H[Len(log)].file
        /\ ATTRIBUTE_RE(H[Len(log)].line).ok
        /\ current_class # None
        /\ \A n \in 1..Len(heap) : heap[n].kind # "AttributeNode"

\* C10: a comment block open at the end of a file is dropped.  Starting
\* the next file, or writing the output, leaves the tree as it is; the new
\* processor has no buffer; and a line that is no comment and has no
\* comment line right before it in its own file changes nothing.
C10_OpenBlockDroppedAtEndOfFile ==
    [][\A H \in {StepHistory} :
           /\ paths' # paths
              => (modules' = modules /\ files' = files /\ heap' = heap
                      /\ buffer' = NoBuffer)
           /\ pc' \in {"written", "write_failed"}
              => (modules' = modules /\ files' = files /\ heap' = heap)
           /\ (Reads /\ ~H[Len(log')].comment /\ H[Len(log')].block = <<>>)
              => (SameDocument /\ buffer' = NoBuffer /\ pc' = pc)]_vars

\* C10 witness: the first file ended inside a comment block, the second
\* file began with a class declaration, and the tree is empty.
C10_Witness ==
    \A H \in {History(log)} :
        /\ pc = "scan"
        /\ Len(paths) = 2
        /\ Len(log) = 2
        /\ H[1].file = 1 /\ H[1].comment
        /\ H[2].file = 2 /\ CLASS_RE(H[2].line).ok
        /\ MODULE_RE(path).ok
        /\ heap = <<>>
        /\ buffer = NoBuffer

\* The module name both '../src/game.js' and '../src/game/index.js' give.
M_game ==
    <<"g","a","m","e">>

\* The lines of the files of module m whose block goes to the module, in
\* the order read (files in processing order, lines in file order).
EntriesOf(H, m) ==
    SelectSeq([k \in DOMAIN H |-> k],
              LAMBDA k : /\ IsConstruct(H, k)
                         /\ MODULE_RE(paths[H[k].file]).ok
                         /\ modulename(paths[H[k].file]) = m
                         /\ \/ CLASS_RE(H[k].line).ok
                            \/ EXPORT_LET_RE(H[k].line).ok)

\* C11: files of one module name share one ModuleNode and one output
\* file.  The module's contents are the nodes of the documented classes
\* (and exports) of those files, in file processing order and then in line
\* order, every node with the ModuleNode as its module.
C11_OneModuleInFileThenLineOrder ==
    \A H \in {History(log)} :
        /\ \A f \in 1..Len(paths) :
               paths[f] \in {P_game, P_game_index} => modulename(paths[f]) = M_game
        /\ \A m \in DOMAIN modules :
               LET c == heap[modules[m]].contents
                   e == EntriesOf(H, m)
               IN  /\ files[S_modules_dir \o m \o S_rst] = modules[m]
                   /\ \A n \in 1..Len(heap) :
                          (heap[n].kind = "ModuleNode" /\ heap[n].name = m)
                          => n = modules[m]
                   /\ Len(c) = Len(e)
                   /\ \A i \in 1..Len(e) :
                          /\ c[i] = NodeItem(H[e[i]].node)
                          /\ heap[c[i].node].parent = modules[m]
                          /\ heap[c[i].node].kind =
                                 IF CLASS_RE(H[e[i]].line).ok
                                 THEN "ClassNode" ELSE "DataNode"
                          /\ i > 1 => e[i - 1] < e[i]
        /\ \A k \in DOMAIN H :
               IsClassDecl(H, k) => modulename(paths[H[k].file]) \in DOMAIN modules

\* C11 witness: '../src/game.js' and '../src/game/index.js' were processed,
\* each with a documented class; module 'game' holds the class of the
\* first file and then the class of the second.
C11_Witness ==
    \A H \in {History(log)} :
        /\ Len(paths) = 2
        /\ paths[1] # paths[2]
        /\ DOMAIN modules = {M_game}
        /\ LET c == heap[modules[M_game]].contents
           IN  /\ Len(c) = 2
               /\ \E j \in DOMAIN H : \E k \in DOMAIN H :
                      /\ H[j].file = 1 /\ IsClassDecl(H, j) /\ c[1].node = H[j].node
                      /\ H[k].file = 2 /\ IsClassDecl(H, k) /\ c[2].node = H[k].node

\* The objects this step has created.
NewNodes == (Len(heap) + 1)..Len(heap')

\* C12 as claimed: with a class active, a comment block before a
\* constructor line creates no MethodNode; a comment block before a getter
\* line creates an AttributeNode of the getter's name under the active
\* class and no MethodNode; a MethodNode is created only for a line that
\* has the shape of a method and is neither a getter nor a constructor.
C12_MethodRuleOnlyForBareMethods ==
    [][\A H \in {StepHistory} : LET k == Len(log') IN
           (Reads /\ IsConstruct(H, k) /\ current_class # None)
           => /\ CONSTRUCTOR_RE(H[k].line).ok
                 => \A n \in NewNodes : heap'[n].kind # "MethodNode"
              /\ GETTER_RE(H[k].line).ok
                 => /\ NewNodes = {Len(heap')}
                    /\ heap'[Len(heap')].kind = "AttributeNode"
                    /\ heap'[Len(heap')].name = GETTER_RE(H[k].line).g1
                    /\ heap'[Len(heap')].parent = current_class
              /\ (\E n \in NewNodes : heap'[n].kind = "MethodNode")
                 => /\ METHOD_RE(H[k].line).ok
                    /\ ~GETTER_RE(H[k].line).ok
                    /\ ~CONSTRUCTOR_RE(H[k].line).ok]_vars

\* C13: get-or-create is idempotent.  In every reachable state a call of
\* RootNode.file or RootNode.module with a name that has a node returns
\* that node and leaves the tree as it is; modules[m] is the node stored
\* at files['modules/<m>.rst'] and no two names share a node.  No step
\* removes a name or gives a name another node.
C13_GetOrCreateIdempotent ==
    [][/\ \A fn \in DOMAIN files :
              /\ file(Tree, fn, NewNode("Node", <<>>, None))
                     = [D |-> Tree, node |-> files[fn]]
              /\ fn \in DOMAIN files' /\ files'[fn] = files[fn]
              /\ files[fn] \in 1..Len(heap)
              /\ \A gn \in DOMAIN files : files[gn] = files[fn] => gn = fn
       /\ \A m \in DOMAIN modules :
              /\ module(Tree, m) = [D |-> Tree, node |-> modules[m]]
              /\ m \in DOMAIN modules' /\ modules'[m] = modules[m]
              /\ S_modules_dir \o m \o S_rst \in DOMAIN files
              /\ files[S_modules_dir \o m \o S_rst] = modules[m]
              /\ heap[modules[m]].kind = "ModuleNode"
              /\ heap[modules[m]].name = m
       /\ \A m \in DOMAIN modules' :
              files'[S_modules_dir \o m \o S_rst] = modules'[m]
       /\ \A n \in 1..Len(heap) :
              heap[n].kind = "ModuleNode" => modules[heap[n].name] = n
       /\ \A H \in {StepHistory} : LET k == Len(log') IN
              /\ (Reads /\ IsOpen(H, k) /\ NarrativeFile(H, k) \in DOMAIN files)
                 => (files' = files /\ modules' = modules
                         /\ Len(heap') = Len(heap))
              /\ (Reads /\ IsConstruct(H, k) /\ MODULE_RE(path).ok
                        /\ modulename(path) \in DOMAIN modules)
                 => (files' = files /\ modules' = modules)]_vars

\* C13 witness: RootNode.module was called twice with one name (two blocks
\* of the file went to the module), and there is one ModuleNode.
C13_Witness ==
    \A H \in {History(log)} :
        /\ pc = "scan"
        /\ MODULE_RE(path).ok
        /\ Len(EntriesOf(H, modulename(path))) >= 2
        /\ DOMAIN modules = {modulename(path)}
        /\ Cardinality({n \in 1..Len(heap) : heap[n].kind = "ModuleNode"}) = 1
        /\ Len(heap[modules[modulename(path)]].contents) >= 2

\* What an entry of a node's contents contributes to the node's text.
Rendered(h, it) == IF it.isnode THEN str(h, it.node) ELSE it.text

\* C14: contents are append-only.  In every step every object stays, of
\* the same class, name and parent; its contents before the step are a
\* prefix of its contents after, longer by at most one entry; an object
\* created in the step has at most one entry; and where the contents grew,
\* the serialized contents are the ones before followed by the new entry:
\* the output order is the order of appending.
C14_ContentsAppendOnly ==
    [][/\ Len(heap') >= Len(heap)
       /\ \A n \in 1..Len(heap) :
              LET old == heap[n].contents
                  new == heap'[n].contents
              IN  /\ heap'[n].kind = heap[n].kind
                  /\ heap'[n].name = heap[n].name
                  /\ heap'[n].parent = heap[n].parent
                  /\ Len(new) \in {Len(old), Len(old) + 1}
                  /\ SubSeq(new, 1, Len(old)) = old
                  /\ Len(new) = Len(old) + 1
                     => text_contents(heap', n) =
                            IF old = <<>>
                            THEN Rendered(heap', new[Len(new)])
                            ELSE text_contents(heap, n) \o S_nlnl
                                     \o Rendered(heap', new[Len(new)])
       /\ \A n \in NewNodes : Len(heap'[n].contents) <= 1]_vars

\* C14 witness: a class holds its text and then a member.
C14_Witness ==
    /\ pc = "scan"
    /\ \E n \in 1..Len(heap) :
           /\ heap[n].kind = "ClassNode"
           /\ Len(heap[n].contents) = 2
           /\ ~heap[n].contents[1].isnode
           /\ heap[n].contents[2].isnode

\* The comment block open after the last line read: the contents of the
\* comment lines that end the lines read so far of the current file f.
OpenBlock(H, f) ==
    LET k == Len(H)
    IN  IF k > 0 /\ H[k].file = f /\ H[k].comment
        THEN Append(H[k].block,
                    IF COMMENT_RE(H[k].line).has1
                    THEN COMMENT_RE(H[k].line).g1 ELSE <<>>)
        ELSE <<>>

\* The objects whose contents hold more strings after this step.
TextGrew ==
    {n \in 1..Len(heap') :
        Len(SelectSeq(heap'[n].contents, LAMBDA it : ~it.isnode))
        > (IF n <= Len(heap)
           THEN Len(SelectSeq(heap[n].contents, LAMBDA it : ~it.isnode))
           ELSE 0)}

\* C15: a comment block is attached to at most one node, as the text of
\* the comment lines right before the triggering line, in order: all of
\* them for a construct, all but the marker line for a narrative block.
\* While the run goes on the buffer is the block open at the last line
\* read, so a line that is no comment closes it, used or not.
C15_BlockAttachedOnceAsWritten ==
    [][\A H \in {History(log')} : LET k == Len(log') IN
           /\ pc' = "scan" => buffer' = OpenBlock(H, Len(paths'))
           /\ Reads
              => /\ TextCount(heap') <= TextCount(heap) + 1
                 /\ Cardinality(TextGrew) <= 1
                 /\ (H[k].comment \/ ~IsTrigger(H, k)) => heap' = heap
                 /\ (~H[k].comment /\ pc' # "aborted") => buffer' = NoBuffer
                 /\ \A n \in TextGrew :
                        /\ n = H[k].node
                        /\ heap'[n].contents[Len(heap'[n].contents)] =
                               TextItem(join(S_nl,
                                   IF IsConstruct(H, k) THEN H[k].block
                                   ELSE Tail(H[k].block)))]_vars

\* C15 witness: a block of two comment lines went to a class and the next
\* block, of one line, to a member of the class.
C15_Witness ==
    \A H \in {History(log)} :
        \E j \in DOMAIN H : \E k \in DOMAIN H :
            /\ j < k
            /\ IsConstruct(H, j) /\ Len(H[j].block) = 2
            /\ IsConstruct(H, k) /\ Len(H[k].block) = 1
            /\ H[j].node # None /\ H[k].node # None /\ H[j].node # H[k].node
            /\ heap[H[j].node].kind = "ClassNode"
            /\ heap[H[k].node].parent = H[j].node
            /\ heap[H[j].node].contents[1] = TextItem(join(S_nl, H[j].block))
            /\ heap[H[k].node].contents = <<TextItem(join(S_nl, H[k].block))>>

\* a sorts before b: a is a proper prefix of b, or the two differ first at
\* a character that is the smaller one in a.
LexLess(a, b) ==
    \E i \in 1..Len(b) :
        /\ i <= Len(a) + 1
        /\ SubSeq(a, 1, i - 1) = SubSeq(b, 1, i - 1)
        /\ (i = Len(a) + 1 \/ Ord(a[i]) < Ord(b[i]))

\* The module names the written index lists, in the order listed: the
\* lines after the five lines of the header, without the margin.
Listed ==
    LET ls == splitlines(written[S_index_rst])
    IN  [i \in 1..(Len(ls) - 5) |-> SubSeq(ls[i + 5], 4, Len(ls[i + 5]))]

\* C16: the index written lists exactly the names of the modules of the
\* tree, those with a ModuleNode, each on one line and once, in strictly
\* ascending lexicographic order, whatever the order the files came in.
C16_IndexSortedModuleNames ==
    pc = "written"
    => /\ S_index_rst \in DOMAIN written
       /\ startswith(written[S_index_rst], S_index_header)
       /\ written[S_index_rst] = S_index_header \o IndexLines(Listed)
       /\ Len(Listed) = Cardinality(DOMAIN modules)
       /\ {Listed[i] : i \in DOMAIN Listed} = DOMAIN modules
       /\ DOMAIN modules =
              {heap[n].name : n \in {a \in 1..Len(heap) : heap[a].kind = "ModuleNode"}}
       /\ \A i \in DOMAIN Listed : \A j \in DOMAIN Listed :
              i < j => LexLess(Listed[i], Listed[j])

\* What the index lists for the modules alpha, mid and zeta.
I_sorted ==
    <<" "," "," ","a","l","p","h","a","\n"," "," "," ","m","i","d","\n"," ",
      " "," ","z","e","t","a","\n">>

\* C16 witness: the files of zeta, alpha and mid were processed in that
\* order, each with a documented export, and the index lists alpha, mid,
\* zeta.
C16_Witness ==
    /\ pc = "written"
    /\ paths = <<P_zeta, P_alpha, P_mid>>
    /\ Cardinality(DOMAIN modules) = 3
    /\ heap[1].name = modulename(P_zeta)
    /\ written[S_index_rst] = S_index_header \o I_sorted

\* The documented class declarations of the file of line k before line k.
DeclsBefore(H, k) ==
    {j \in 1..(k - 1) : H[j].file = H[k].file /\ IsClassDecl(H, j)}

\* The node of the latest of them: the class active at line k.
ActiveAt(H, k) ==
    IF DeclsBefore(H, k) = {} THEN None ELSE H[Latest(DeclsBefore(H, k))].node

\* C17: the active class is the ClassNode of the latest documented class
\* declaration of the current file, and none at the start of a file.  A
\* MethodNode or AttributeNode is created only with a class active and is
\* appended to it; a line that is no documented class declaration leaves
\* the active class as it is; a documented member line before the file's
\* first documented class declaration creates nothing.
C17_MembersUnderActiveClass ==
    [][\A H \in {StepHistory} : LET k == Len(log') IN
           /\ paths' # paths => current_class' = None
           /\ Reads
              => /\ current_class = ActiveAt(H, k)
                 /\ current_class # None => heap[current_class].kind = "ClassNode"
                 /\ \A n \in NewNodes :
                        heap'[n].kind \in {"MethodNode", "AttributeNode"}
                        => /\ current_class # None
                           /\ heap'[n].parent = current_class
                           /\ heap'[current_class].contents =
                                  Append(heap[current_class].contents, NodeItem(n))
                 /\ current_class' =
                        IF IsClassDecl(H, k) THEN H[k].node ELSE current_class
                 /\ IsClassDecl(H, k)
                    => (H[k].node \in NewNodes /\ heap'[H[k].node].kind = "ClassNode")
                 /\ (/\ IsConstruct(H, k)
                     /\ DeclsBefore(H, k) = {}
                     /\ ~CLASS_RE(H[k].line).ok
                     /\ ~EXPORT_LET_RE(H[k].line).ok)
                    => heap' = heap]_vars

\* C17 witness: the first file has a documented class; the second file
\* has a documented method line and no class before it, and the tree
\* holds no MethodNode.
C17_Witness ==
    \A H \in {History(log)} :
        /\ pc = "scan"
        /\ Len(paths) = 2
        /\ \E j \in DOMAIN H : H[j].file = 1 /\ IsClassDecl(H, j)
        /\ H[Len(H)].file = 2
        /\ IsConstruct(H, Len(H))
        /\ METHOD_RE(H[Len(H)].line).ok
        /\ DeclsBefore(H, Len(H)) = {}
        /\ current_class = None
        /\ \A n \in 1..Len(heap) : heap[n].kind # "MethodNode"

\* C18: every structured node is in the tree once, in the contents of the
\* object it references: a ClassNode or DataNode in its ModuleNode, a
\* MethodNode or AttributeNode in its ClassNode.  A narrative node holds
\* strings only, a ModuleNode is in nobody's contents, and the files are
\* the ModuleNodes and the narrative nodes.
C18_Ownership ==
    /\ \A n \in 1..Len(heap) :
           LET c == heap[n].contents
           IN  \A i \in 1..Len(c) :
                   c[i].isnode
                   => /\ c[i].node \in 1..Len(heap)
                      /\ heap[c[i].node].parent = n
                      /\ \A j \in 1..Len(c) : c[j] = c[i] => j = i
    /\ \A n \in 1..Len(heap) :
           LET owners == {p \in 1..Len(heap) :
                            \E i \in 1..Len(heap[p].contents) :
                                heap[p].contents[i] = NodeItem(n)}
           IN  IF heap[n].kind \in {"ClassNode", "DataNode"}
               THEN owners = {heap[n].parent}
                    /\ heap[heap[n].parent].kind = "ModuleNode"
               ELSE IF heap[n].kind \in {"MethodNode", "AttributeNode"}
               THEN owners = {heap[n].parent}
                    /\ heap[heap[n].parent].kind = "ClassNode"
               ELSE /\ owners = {}
                    /\ \E fn \in DOMAIN files : files[fn] = n
                    /\ heap[n].kind = "Node"
                       => \A i \in 1..Len(heap[n].contents) :
                              ~heap[n].contents[i].isnode
    /\ \A fn \in DOMAIN files : heap[files[fn]].kind \in {"Node", "ModuleNode"}

\* C18 witness: a member in the contents of its class, the class in the
\* contents of its module, the module a file of the tree.
C18_Witness ==
    /\ pc = "scan"
    /\ \E n \in 1..Len(heap) :
           LET c == heap[n].parent
           IN  /\ heap[n].kind \in {"MethodNode", "AttributeNode"}
               /\ heap[c].kind = "ClassNode"
               /\ heap[c].contents[Len(heap[c].contents)] = NodeItem(n)
               /\ heap[heap[c].parent].kind = "ModuleNode"
               /\ heap[heap[c].parent].contents = <<NodeItem(c)>>
               /\ \E fn \in DOMAIN files : files[fn] = heap[c].parent

\* C19 as claimed: no module's file is the index file, so what main has
\* written under a module's file name is the module's document.
C19_IndexOverwritesNoModule ==
    /\ \A m \in DOMAIN modules : S_modules_dir \o m \o S_rst # S_index_rst
    /\ pc = "written"
       => \A m \in DOMAIN modules :
              written[S_modules_dir \o m \o S_rst] = str(heap, modules[m])

\* C20 as claimed: in a file of either tree a comment block before a
\* class declaration or an 'export let' line completes: the run goes on
\* and the new ClassNode or DataNode is in a module of the tree, under a
\* name derived from the file's path.
C20_ModuleForEveryInputFile ==
    [][\A H \in {StepHistory} : LET k == Len(log') IN
           (/\ Reads
            /\ IsConstruct(H, k)
            /\ CLASS_RE(H[k].line).ok \/ EXPORT_LET_RE(H[k].line).ok)
           => /\ pc' = "scan"
              /\ \E n \in NewNodes : \E m \in DOMAIN modules' :
                     /\ heap'[n].kind =
                            IF CLASS_RE(H[k].line).ok
                            THEN "ClassNode" ELSE "DataNode"
                     /\ heap'[n].parent = modules'[m]
                     /\ heap'[modules'[m]].contents[
                            Len(heap'[modules'[m]].contents)] = NodeItem(n)]_vars

====
